---- MODULE Spec2Model ----
(***************************************************************************)
(* External merge sort counter of distinct IPv6 addresses                  *)
(* (src/task_1/main.py).                                                   *)
(*                                                                         *)
(* One invocation of count_unique_ipv6_external is modelled as a state     *)
(* machine: the orchestrator creates a temporary directory, the run        *)
(* builder reads the input line by line and flushes sorted runs, the       *)
(* reducer merges batches of at most fan_in runs until at most fan_in      *)
(* remain, the counter does a last k-way merge counting distinct records,  *)
(* the result is written to the output file, and the finally block removes *)
(* the temporary directory unless keep_tmp is set.                         *)
(*                                                                         *)
(* A packed address (16 bytes, network order) is modelled by a positive    *)
(* integer: byte-lexicographic order of the packed form is the numeric     *)
(* order of the address.  A file of the temporary directory is a sequence  *)
(* of records; a path is a triple <<kind, a, b>>:                          *)
(*   run_<idx>.bin             is <<"run", 0, idx>>                        *)
(*   merge_<level>_<batch>.bin is <<"merge", level, batch>>.               *)
(* Every system call that can fail has a failing branch (an OSError).      *)
(***************************************************************************)
EXTENDS Integers, Sequences, FiniteSets, TLC

\* ------------------------------------------------------------------------
\* Bounds of the model
\* ------------------------------------------------------------------------
MaxLines == 5     \* lines of the input file
MaxKey == 2       \* distinct addresses
MaxChunk == 2     \* chunk_records ranges over 1..MaxChunk
MaxFanIn == 2     \* fan_in ranges over 1..MaxFanIn
MaxLevel == 2     \* reducer passes started (cap of the level counter)

Keys == 1..MaxKey

\* read() at end of file returns b"", which is falsy
NoRec == 0

\* read(RECORD_SIZE) on the last bytes of a file whose length is no multiple
\* of RECORD_SIZE returns fewer than RECORD_SIZE bytes, which is truthy.  The
\* keys of the model are the addresses ::1, ::2, ..., which differ in their
\* last byte only, so such a short record is a string of zero bytes and
\* sorts below every key.
Frag == -1

\* Textual forms of an address: the same address may be written in full,
\* compressed ("::") or upper-case form.  A line is <<form, key>>.
Forms == {"full", "compressed"}
BlankLine == <<"blank", 0>>
BadLine == <<"invalid", 0>>
Lines == (Forms \X Keys) \cup {BlankLine, BadLine}

\* line.strip() is empty
IsBlank(line) == line[1] = "blank"

\* socket.inet_pton raises OSError
EncodeFails(line) == line[1] = "invalid"

\* ipv6_to_packed: every textual form of an address gives its packed bytes
ipv6_to_packed(line) == line[2]

Min(a, b) == IF a <= b THEN a ELSE b

\* ------------------------------------------------------------------------
\* Multisets of records, as functions record -> count
\* ------------------------------------------------------------------------
EmptyBag == [k \in Keys |-> 0]

BagOf(seq) == [k \in Keys |-> Cardinality({i \in DOMAIN seq : seq[i] = k})]

BagAdd(b1, b2) == [k \in Keys |-> b1[k] + b2[k]]

BagSize(b) ==
  LET RECURSIVE Sum(_)
      Sum(S) == IF S = {} THEN 0
                ELSE LET k == CHOOSE x \in S : TRUE IN b[k] + Sum(S \ {k})
  IN Sum(Keys)

RECURSIVE BagOfFiles(_, _)
BagOfFiles(f, P) ==
  IF P = {} THEN EmptyBag
  ELSE LET p == CHOOSE x \in P : TRUE
       IN BagAdd(BagOf(f[p]), BagOfFiles(f, P \ {p}))

RECURSIVE BagOfRuns(_, _)
BagOfRuns(f, rs) ==
  IF rs = <<>> THEN EmptyBag
  ELSE BagAdd(BagOf(f[Head(rs)]), BagOfRuns(f, Tail(rs)))

IsSorted(seq) == \A i \in 1..(Len(seq) - 1) : seq[i] <= seq[i + 1]

SeqRange(seq) == {seq[i] : i \in DOMAIN seq}

\* ------------------------------------------------------------------------
\* State
\* ------------------------------------------------------------------------
VARIABLES
  chunk_records,  \* parameter
  fan_in,         \* parameter
  keep_tmp,       \* parameter
  pc,             \* position in the program
  tmp_dir,        \* "none", "exists" or "deleted"
  fs,             \* files of tmp_dir: path -> sequence of records
  complete,       \* paths whose file was written to the end and closed
  pos,            \* lines of the input consumed so far
  encoded,        \* multiset of the keys ipv6_to_packed has returned
  buf,            \* generate_initial_runs: buf
  run_idx,        \* generate_initial_runs: run_idx
  run_paths,      \* reduce_runs: multiset of the records of its argument
  runs,           \* the current list of run paths
  level,          \* reduce_runs: level
  new_runs,       \* reduce_runs: new_runs
  batch_start,    \* reduce_runs: batch_start
  rm_i,           \* reduce_runs: inputs of the batch removed so far
  files,          \* open read handles: sequence of [path, off]
  heap,           \* set of <<rec, i>>
  out_open,       \* the merge output is open for writing
  prev,           \* count_unique_across_runs: prev (NoRec is None)
  uniq,           \* count_unique_across_runs: uniq
  ans,            \* count_unique_ipv6_external: ans (-1: not assigned)
  sink,           \* the output file: [opened, text]
  err,            \* the exception propagating, or "none"
  err_stage,      \* the stage that raised it
  reported,       \* the keep_tmp message was printed
  merged,         \* history: the runs merged so far in this pass, in order
  created         \* history: the paths opened for writing so far, in order

params == <<chunk_records, fan_in, keep_tmp>>
buildVars == <<pos, encoded, buf, run_idx, run_paths>>
reduceVars == <<level, new_runs, batch_start, rm_i>>
mergeVars == <<files, heap, out_open>>
countVars == <<prev, uniq>>
resultVars == <<ans, sink, reported>>
errVars == <<err, err_stage>>
ghostVars == <<merged, created>>

vars == <<chunk_records, fan_in, keep_tmp, pc, tmp_dir, fs, complete, pos,
          encoded, buf, run_idx, run_paths, runs, level, new_runs, batch_start,
          rm_i, files, heap, out_open, prev, uniq, ans, sink, err, err_stage,
          reported, merged, created>>

NoFiles == [p \in {} |-> <<>>]

Init ==
  /\ chunk_records \in 1..MaxChunk
  /\ fan_in \in 1..MaxFanIn
  /\ keep_tmp \in BOOLEAN
  /\ pc = "start"
  /\ tmp_dir = "none"
  /\ fs = NoFiles
  /\ complete = {}
  /\ pos = 0
  /\ encoded = EmptyBag
  /\ buf = <<>>
  /\ run_idx = 0
  /\ run_paths = EmptyBag
  /\ runs = <<>>
  /\ level = 0
  /\ new_runs = <<>>
  /\ batch_start = 0
  /\ rm_i = 0
  /\ files = <<>>
  /\ heap = {}
  /\ out_open = FALSE
  /\ prev = NoRec
  /\ uniq = 0
  /\ ans = -1
  /\ sink = [opened |-> FALSE, text |-> <<>>]
  /\ err = "none"
  /\ err_stage = "none"
  /\ reported = FALSE
  /\ merged = <<>>
  /\ created = <<>>

\* an exception that ends the invocation without the finally block
RaiseNoFinally(kind, stage) ==
  /\ err' = kind
  /\ err_stage' = stage
  /\ pc' = "done"

\* An exception leaves the try block of count_unique_ipv6_external and
\* enters its finally block
Raise(kind, stage) ==
  /\ err' = kind
  /\ err_stage' = stage
  /\ pc' = "finally"

\* ------------------------------------------------------------------------
\* Orchestrator, first half
\* ------------------------------------------------------------------------
\* tempfile.mkdtemp, before the try block
Mkdtemp ==
  /\ pc = "start"
  /\ \/ /\ tmp_dir' = "exists"
        /\ pc' = "build_open"
        /\ UNCHANGED errVars
     \/ /\ err' = "OSError"
        /\ err_stage' = "mkdtemp"
        /\ pc' = "done"
        /\ UNCHANGED tmp_dir
  /\ UNCHANGED <<params, ghostVars, fs, complete, buildVars, runs, reduceVars,
                 mergeVars, countVars, resultVars>>

\* ------------------------------------------------------------------------
\* Run builder
\* ------------------------------------------------------------------------
InsertSorted(k, seq) ==
  LET n == Cardinality({i \in DOMAIN seq : seq[i] <= k})
  IN SubSeq(seq, 1, n) \o <<k>> \o SubSeq(seq, n + 1, Len(seq))

RECURSIVE SortAsc(_)
SortAsc(seq) ==
  IF seq = <<>> THEN <<>> ELSE InsertSorted(Head(seq), SortAsc(Tail(seq)))

\* a flush_run that writes the buffer unsorted
SortBufNoSort(b) == b

\* buf.sort()
SortBuf(b) == SortAsc(b)

\* the path flush_run writes
RunPath(idx) == <<"run", 0, idx>>

\* a file f with p created or replaced by content c
WriteFile(f, p, c) == [q \in DOMAIN f \cup {p} |-> IF q = p THEN c ELSE f[q]]

\* open(input_path) of generate_initial_runs
OpenInput ==
  /\ pc = "build_open"
  /\ \/ /\ pc' = "build"
        /\ UNCHANGED errVars
     \/ Raise("OSError", "builder")
  /\ UNCHANGED <<params, ghostVars, tmp_dir, fs, complete, buildVars, runs,
                 reduceVars,
                 mergeVars, countVars, resultVars>>

\* flush_run(b, tmp_dir, run_idx) and what its caller does with the result
\* (runs.append, then run_idx becomes next_idx, buf.clear()).  It fails when
\* the file cannot be opened (no file) or a write fails (a file holding the
\* records written so far); the buffer was sorted in place before.
Flush(b, next_idx, next_pc) ==
  LET sorted == SortBuf(b)
      path == RunPath(run_idx)
  IN \/ /\ fs' = WriteFile(fs, path, sorted)
        /\ created' = Append(created, path)
        /\ complete' = complete \cup {path}
        /\ runs' = Append(runs, path)
        /\ run_idx' = next_idx
        /\ buf' = <<>>
        /\ pc' = next_pc
        /\ UNCHANGED errVars
     \/ /\ \/ UNCHANGED <<fs, created>>
           \/ /\ \E n \in 0..(Len(sorted) - 1) :
                   fs' = WriteFile(fs, path, SubSeq(sorted, 1, n))
              /\ created' = Append(created, path)
        /\ complete' = complete \ {path}
        /\ buf' = sorted
        /\ UNCHANGED <<runs, run_idx>>
        /\ Raise("OSError", "builder")

\* one iteration of "for line in fin"
BuildLine ==
  /\ pc = "build"
  /\ pos < MaxLines
  /\ \E line \in Lines :
       /\ pos' = pos + 1
       /\ IF IsBlank(line)
          THEN UNCHANGED <<pc, encoded, buf, run_idx, runs, fs, complete,
                           created, errVars>>
          ELSE IF EncodeFails(line)
          THEN /\ Raise("OSError", "builder")
               /\ UNCHANGED <<encoded, buf, run_idx, runs, fs, complete,
                              created>>
          ELSE LET key == ipv6_to_packed(line)
                   b == Append(buf, key)
               IN /\ encoded' = [encoded EXCEPT ![key] = @ + 1]
                  /\ IF Len(b) >= chunk_records
                     THEN Flush(b, run_idx + 1, "build")
                     ELSE /\ buf' = b
                          /\ UNCHANGED <<pc, run_idx, runs, fs, complete,
                                         created, errVars>>
  /\ UNCHANGED <<params, merged, tmp_dir, run_paths, reduceVars, mergeVars,
                 countVars, resultVars>>

NeedsFlushAlways(b) == TRUE

\* "if buf:" after the loop: only a non-empty buffer is flushed
NeedsFlush(b) == b # <<>>

\* end of the input: the last flush and the return to the orchestrator,
\* which calls reduce_runs (level = 0, runs = run_paths[:])
BuildEnd ==
  /\ pc = "build"
  /\ IF NeedsFlush(buf)
     THEN Flush(buf, run_idx, "reduce")
     ELSE /\ pc' = "reduce"
          /\ UNCHANGED <<buf, run_idx, runs, fs, complete, created,
                         errVars>>
  /\ level' = 0
  /\ run_paths' = IF pc' = "reduce" THEN BagOfRuns(fs', runs') ELSE run_paths
  /\ UNCHANGED <<params, merged, tmp_dir, pos, encoded, new_runs,
                 batch_start, rm_i, mergeVars, countVars, resultVars>>

\* ------------------------------------------------------------------------
\* Read handles and the heap, shared by the merge and the counter
\* ------------------------------------------------------------------------
\* f.read(RECORD_SIZE) on handle h: the next record, or b"" at end of file
ReadRec(f, h) ==
  IF h.path \in DOMAIN f /\ h.off < Len(f[h.path])
  THEN f[h.path][h.off + 1]
  ELSE NoRec

\* the handle after that read
Advance(f, h) ==
  IF ReadRec(f, h) # NoRec THEN [h EXCEPT !.off = @ + 1] ELSE h

\* tuple order of (rec, i)
TupleLE(a, b) == a[1] < b[1] \/ (a[1] = b[1] /\ a[2] <= b[2])

\* a pop that takes the entry of the lowest run index
HeapPopLowestIndex(h) == CHOOSE e \in h : \A o \in h : e[2] <= o[2]

\* heapq.heappop: the least (rec, i)
HeapPop(h) == CHOOSE e \in h : \A o \in h : TupleLE(e, o)

\* the heap built from the first record of every open file
FirstRecords(f, fl) ==
  {<<ReadRec(f, fl[i]), i>> : i \in {j \in DOMAIN fl : ReadRec(f, fl[j]) # NoRec}}

\* a heap refill that drops a record equal to the one just popped
PushNextDedup(h, e, nxt) ==
  (h \ {e}) \cup (IF nxt # NoRec /\ nxt # e[1] THEN {<<nxt, e[2]>>} ELSE {})

\* the heap after popping e and pushing the next record nxt of its run
PushNext(h, e, nxt) ==
  (h \ {e}) \cup (IF nxt # NoRec THEN {<<nxt, e[2]>>} ELSE {})

\* one iteration of the loop of _open_runs over paths; an open that fails
\* raises out of _open_runs, before the try block of its caller, so the
\* handles opened so far are not closed
OpenRunsStep(paths, next_pc, stage) ==
  LET i == Len(files) + 1
  IN /\ i <= Len(paths)
     /\ \/ /\ paths[i] \in DOMAIN fs
           /\ files' = Append(files, [path |-> paths[i], off |-> 0])
           /\ pc' = IF i = Len(paths) THEN next_pc ELSE pc
           /\ UNCHANGED errVars
        \/ /\ UNCHANGED files
           /\ Raise("OSError", stage)

\* ------------------------------------------------------------------------
\* Reducer
\* ------------------------------------------------------------------------
\* a loop condition that stops one run too late
LoopCondOffByOne(n, f) == n > f + 1

\* a loop condition that starts a pass over exactly fan_in runs
LoopCondInclusive(n, f) == n >= f

\* while len(runs) > fan_in
LoopCond(n, f) == n > f

\* a slice that stops one run short
BatchShort(rs, start, f) == SubSeq(rs, start + 1, Min(start + f, Len(rs)) - 1)

\* runs[batch_start: batch_start + fan_in]
Batch(rs, start, f) == SubSeq(rs, start + 1, Min(start + f, Len(rs)))

\* an output named like the run of the builder it starts from
MergedPathOverInput(lv, start, f) == <<"run", 0, start>>

\* merge_<level>_<batch_start // fan_in>.bin
MergedPath(lv, start, f) == <<"merge", lv, start \div f>>

batch == Batch(runs, batch_start, fan_in)
merged_path == MergedPath(level, batch_start, fan_in)

\* the while test of reduce_runs: a new pass, or the return to the
\* orchestrator, which calls count_unique_across_runs
ReduceTest ==
  /\ pc = "reduce"
  /\ IF LoopCond(Len(runs), fan_in)
     THEN /\ level < MaxLevel
          /\ new_runs' = <<>>
          /\ batch_start' = 0
          /\ merged' = <<>>
          /\ pc' = "batch"
     ELSE /\ pc' = "count"
          /\ UNCHANGED <<new_runs, batch_start, merged>>
  /\ UNCHANGED <<params, created, tmp_dir, fs, complete, buildVars, runs, level, rm_i,
                 mergeVars, countVars, resultVars, errVars>>

\* the for loop over range(0, len(runs), fan_in): the next batch
StartBatch ==
  /\ pc = "batch"
  /\ batch_start < Len(runs)
  /\ pc' = "merge_open"
  /\ UNCHANGED <<params, ghostVars, tmp_dir, fs, complete, buildVars, runs,
                 reduceVars,
                 mergeVars, countVars, resultVars, errVars>>

\* the for loop is exhausted: runs = new_runs, level += 1
EndPass ==
  /\ pc = "batch"
  /\ batch_start >= Len(runs)
  /\ runs' = new_runs
  /\ level' = level + 1
  /\ pc' = "reduce"
  /\ UNCHANGED <<params, ghostVars, tmp_dir, fs, complete, buildVars, new_runs,
                 batch_start, rm_i, mergeVars, countVars, resultVars,
                 errVars>>

\* merge_runs_to_file: files = _open_runs(run_paths)
MergeOpenRun ==
  /\ pc = "merge_open"
  /\ OpenRunsStep(batch, "merge_init", "reducer")
  /\ UNCHANGED <<params, ghostVars, tmp_dir, fs, complete, buildVars, runs,
                 reduceVars,
                 heap, out_open, countVars, resultVars>>

\* merge_runs_to_file: the first record of every run, heapify.  An
\* exception inside the try block closes every file on its way out.
MergeHeapInit ==
  /\ pc = "merge_init"
  /\ \/ /\ heap' = FirstRecords(fs, files)
        /\ files' = [i \in DOMAIN files |-> Advance(fs, files[i])]
        /\ pc' = "merge_out"
        /\ UNCHANGED errVars
     \/ /\ files' = <<>>
        /\ UNCHANGED heap
        /\ Raise("OSError", "reducer")
  /\ UNCHANGED <<params, ghostVars, tmp_dir, fs, complete, buildVars, runs,
                 reduceVars,
                 out_open, countVars, resultVars>>

\* merge_runs_to_file: open(out_path, "wb") creates or truncates the output
MergeOpenOut ==
  /\ pc = "merge_out"
  /\ \/ /\ fs' = WriteFile(fs, merged_path, <<>>)
        /\ complete' = complete \ {merged_path}
        /\ created' = Append(created, merged_path)
        /\ out_open' = TRUE
        /\ pc' = "merge_loop"
        /\ UNCHANGED <<files, errVars>>
     \/ /\ files' = <<>>
        /\ UNCHANGED <<fs, complete, out_open, created>>
        /\ Raise("OSError", "reducer")
  /\ UNCHANGED <<params, merged, tmp_dir, buildVars, runs, reduceVars, heap,
                 countVars, resultVars>>

\* merge_runs_to_file: one iteration of "while heap": pop, write, read the
\* next record of that run, push it
MergeStep ==
  /\ pc = "merge_loop"
  /\ heap # {}
  /\ LET e == HeapPop(heap)
         written == WriteFile(fs, merged_path, Append(fs[merged_path], e[1]))
         nxt == ReadRec(written, files[e[2]])
     IN \/ /\ fs' = written
           /\ files' = [files EXCEPT ![e[2]] = Advance(written, @)]
           /\ heap' = PushNext(heap, e, nxt)
           /\ UNCHANGED <<pc, out_open, errVars>>
        \/ /\ fs' \in {fs, written}
           /\ files' = <<>>
           /\ out_open' = FALSE
           /\ UNCHANGED heap
           /\ Raise("OSError", "reducer")
  /\ UNCHANGED <<params, ghostVars, tmp_dir, complete, buildVars, runs, reduceVars,
                 countVars, resultVars>>

\* merge_runs_to_file: the heap is empty: the with block closes the output,
\* the finally block closes the inputs, and reduce_runs appends merged_path
\* to new_runs and starts removing the batch
MergeFinish ==
  /\ pc = "merge_loop"
  /\ heap = {}
  /\ out_open' = FALSE
  /\ files' = <<>>
  /\ \/ /\ complete' = complete \cup {merged_path}
        /\ new_runs' = Append(new_runs, merged_path)
        /\ merged' = merged \o [i \in DOMAIN files |-> files[i].path]
        /\ rm_i' = 0
        /\ pc' = "remove"
        /\ UNCHANGED errVars
     \/ /\ UNCHANGED <<complete, new_runs, rm_i, merged>>
        /\ Raise("OSError", "reducer")
  /\ UNCHANGED <<params, created, tmp_dir, fs, buildVars, runs, level, batch_start,
                 heap, countVars, resultVars>>

\* an os.remove that leaves the file in place
RemoveFileNoop(f, p) == f

\* f without the file p
RemoveFile(f, p) == [q \in DOMAIN f \ {p} |-> f[q]]

\* reduce_runs: os.remove of the next input of the batch (a missing file is
\* ignored); after the last one the for loop moves to the next batch
RemoveInput ==
  /\ pc = "remove"
  /\ rm_i < Len(batch)
  /\ LET p == batch[rm_i + 1]
     IN \/ /\ fs' = RemoveFile(fs, p)
           /\ complete' = complete \ {p}
           /\ rm_i' = rm_i + 1
           /\ IF rm_i + 1 = Len(batch)
              THEN /\ batch_start' = batch_start + fan_in
                   /\ pc' = "batch"
              ELSE UNCHANGED <<batch_start, pc>>
           /\ UNCHANGED errVars
        \/ /\ p \in DOMAIN fs
           /\ UNCHANGED <<fs, complete, rm_i, batch_start>>
           /\ Raise("OSError", "reducer")
  /\ UNCHANGED <<params, ghostVars, tmp_dir, buildVars, runs, level, new_runs,
                 mergeVars, countVars, resultVars>>

\* ------------------------------------------------------------------------
\* Unique counter
\* ------------------------------------------------------------------------
\* count_unique_across_runs: "if not run_paths: return 0"
CountStart ==
  /\ pc = "count"
  /\ IF runs = <<>>
     THEN /\ ans' = 0
          /\ pc' = "write_open"
     ELSE /\ pc' = "count_open"
          /\ UNCHANGED ans
  /\ UNCHANGED <<params, ghostVars, tmp_dir, fs, complete, buildVars, runs,
                 reduceVars,
                 mergeVars, countVars, sink, reported, errVars>>

\* count_unique_across_runs: files = _open_runs(run_paths)
CountOpenRun ==
  /\ pc = "count_open"
  /\ OpenRunsStep(runs, "count_init", "counter")
  /\ UNCHANGED <<params, ghostVars, tmp_dir, fs, complete, buildVars, runs,
                 reduceVars,
                 heap, out_open, countVars, resultVars>>

\* count_unique_across_runs: the first record of every run, heapify,
\* prev = None, uniq = 0
CountHeapInit ==
  /\ pc = "count_init"
  /\ \/ /\ heap' = FirstRecords(fs, files)
        /\ files' = [i \in DOMAIN files |-> Advance(fs, files[i])]
        /\ prev' = NoRec
        /\ uniq' = 0
        /\ pc' = "count_loop"
        /\ UNCHANGED errVars
     \/ /\ files' = <<>>
        /\ UNCHANGED <<heap, prev, uniq>>
        /\ Raise("OSError", "counter")
  /\ UNCHANGED <<params, ghostVars, tmp_dir, fs, complete, buildVars, runs,
                 reduceVars,
                 out_open, resultVars>>

\* a counter that counts every record
IsNewAlways(p, rec) == TRUE

\* "if prev != rec"
IsNew(p, rec) == p # rec

\* count_unique_across_runs: one iteration of "while heap"
CountStep ==
  /\ pc = "count_loop"
  /\ heap # {}
  /\ LET e == HeapPop(heap)
         nxt == ReadRec(fs, files[e[2]])
     IN \/ /\ IF IsNew(prev, e[1])
              THEN /\ uniq' = uniq + 1
                   /\ prev' = e[1]
              ELSE UNCHANGED <<uniq, prev>>
           /\ files' = [files EXCEPT ![e[2]] = Advance(fs, @)]
           /\ heap' = PushNext(heap, e, nxt)
           /\ UNCHANGED <<pc, errVars>>
        \/ /\ IF IsNew(prev, e[1])
              THEN /\ uniq' = uniq + 1
                   /\ prev' = e[1]
              ELSE UNCHANGED <<uniq, prev>>
           /\ files' = <<>>
           /\ UNCHANGED heap
           /\ Raise("OSError", "counter")
  /\ UNCHANGED <<params, ghostVars, tmp_dir, fs, complete, buildVars, runs,
                 reduceVars,
                 out_open, resultVars>>

\* count_unique_across_runs: "return uniq"; the finally block closes the
\* files and the orchestrator assigns ans
CountReturn ==
  /\ pc = "count_loop"
  /\ heap = {}
  /\ files' = <<>>
  /\ ans' = uniq
  /\ pc' = "write_open"
  /\ UNCHANGED <<params, ghostVars, tmp_dir, fs, complete, buildVars, runs,
                 reduceVars,
                 heap, out_open, countVars, sink, reported, errVars>>

\* ------------------------------------------------------------------------
\* Orchestrator, second half
\* ------------------------------------------------------------------------
\* str(ans)
Str(n) == ToString(n)

\* open(output_path, "w") creates or truncates the output file
WriteOpen ==
  /\ pc = "write_open"
  /\ \/ /\ sink' = [opened |-> TRUE, text |-> <<>>]
        /\ pc' = "write"
        /\ UNCHANGED errVars
     \/ /\ UNCHANGED sink
        /\ Raise("OSError", "output")
  /\ UNCHANGED <<params, ghostVars, tmp_dir, fs, complete, buildVars, runs,
                 reduceVars,
                 mergeVars, countVars, ans, reported>>

\* fout.write(str(ans)); fout.write("\n"); the with block closes the file;
\* "return ans" enters the finally block.  A failing write leaves the file
\* empty or without its last characters.
WriteResult ==
  /\ pc = "write"
  /\ \/ /\ sink' = [sink EXCEPT !.text = <<Str(ans), "\n">>]
        /\ pc' = "finally"
        /\ UNCHANGED errVars
     \/ /\ sink' \in {sink, [sink EXCEPT !.text = <<Str(ans)>>]}
        /\ Raise("OSError", "output")
  /\ UNCHANGED <<params, ghostVars, tmp_dir, fs, complete, buildVars, runs,
                 reduceVars,
                 mergeVars, countVars, ans, reported>>

\* the finally block: the message when keep_tmp, else shutil.rmtree
Finally ==
  /\ pc = "finally"
  /\ IF keep_tmp
     THEN /\ reported' = TRUE
          /\ UNCHANGED <<tmp_dir, fs, complete>>
     ELSE /\ tmp_dir' = "deleted"
          /\ fs' = NoFiles
          /\ complete' = {}
          /\ UNCHANGED reported
  /\ pc' = "done"
  /\ UNCHANGED <<params, ghostVars, buildVars, runs, reduceVars, mergeVars, countVars,
                 ans, sink, errVars>>

Next ==
  \/ Mkdtemp
  \/ OpenInput
  \/ BuildLine
  \/ BuildEnd
  \/ ReduceTest
  \/ StartBatch
  \/ EndPass
  \/ MergeOpenRun
  \/ MergeHeapInit
  \/ MergeOpenOut
  \/ MergeStep
  \/ MergeFinish
  \/ RemoveInput
  \/ CountStart
  \/ CountOpenRun
  \/ CountHeapInit
  \/ CountStep
  \/ CountReturn
  \/ WriteOpen
  \/ WriteResult
  \/ Finally

Spec == Init /\ [][Next]_vars

\* ------------------------------------------------------------------------
\* The pipeline with a run file cut short from outside
\* ------------------------------------------------------------------------
\* Between two stages, a run of the current list loses its last bytes from
\* outside the program, so that its length is no multiple of RECORD_SIZE:
\* the first n - 1 records stay and the n-th is cut short.  It happens at
\* most once at a time.
Truncate ==
  /\ pc \in {"reduce", "count"}
  /\ \A p \in DOMAIN fs : Frag \notin SeqRange(fs[p])
  /\ \E p \in SeqRange(runs) \cap DOMAIN fs :
       \E n \in 1..Len(fs[p]) :
         fs' = WriteFile(fs, p, Append(SubSeq(fs[p], 1, n - 1), Frag))
  /\ UNCHANGED <<params, ghostVars, pc, tmp_dir, complete, buildVars, runs, reduceVars,
                 mergeVars, countVars, resultVars, errVars>>

NextTrunc == Next \/ Truncate

TruncSpec == Init /\ [][NextTrunc]_vars

TypeOK ==
  /\ pc \in {"start", "build_open", "build", "reduce", "batch", "merge_open",
             "merge_init", "merge_out", "merge_loop", "remove", "count",
             "count_open", "count_init", "count_loop", "write_open", "write",
             "finally", "done"}
  /\ tmp_dir \in {"none", "exists", "deleted"}
  /\ complete \subseteq DOMAIN fs
  /\ pos \in 0..MaxLines
  /\ Len(buf) <= chunk_records

\* ------------------------------------------------------------------------
\* merge_runs_to_file on its own, over any run files (sorted or not, empty
\* or not)
\* ------------------------------------------------------------------------
MaxMergeRuns == 2   \* run files handed to one merge
MaxRunLen == 2      \* records of one of them

RunContents == UNION {[1..n -> Keys] : n \in 0..MaxRunLen}

InitMerge ==
  /\ \E n \in 1..MaxMergeRuns :
       \E c \in [1..n -> RunContents] :
         /\ fs = [p \in {RunPath(i - 1) : i \in 1..n} |-> c[p[3] + 1]]
         /\ runs = [i \in 1..n |-> RunPath(i - 1)]
         /\ fan_in = n
         /\ run_idx = n
  /\ complete = DOMAIN fs
  /\ encoded = BagOfFiles(fs, DOMAIN fs)
  /\ run_paths = encoded
  /\ chunk_records = MaxRunLen
  /\ keep_tmp = FALSE
  /\ pc = "merge_open"
  /\ tmp_dir = "exists"
  /\ pos = 0
  /\ buf = <<>>
  /\ level = 0
  /\ new_runs = <<>>
  /\ batch_start = 0
  /\ rm_i = 0
  /\ files = <<>>
  /\ heap = {}
  /\ out_open = FALSE
  /\ prev = NoRec
  /\ uniq = 0
  /\ ans = -1
  /\ sink = [opened |-> FALSE, text |-> <<>>]
  /\ err = "none"
  /\ err_stage = "none"
  /\ reported = FALSE
  /\ merged = <<>>
  /\ created = runs

NextMerge ==
  \/ MergeOpenRun
  \/ MergeHeapInit
  \/ MergeOpenOut
  \/ MergeStep
  \/ MergeFinish

MergeSpec == InitMerge /\ [][NextMerge]_vars

\* ------------------------------------------------------------------------
\* Properties
\* ------------------------------------------------------------------------
\* number of distinct keys of a multiset
DistinctCount(b) == Cardinality({k \in Keys : b[k] > 0})

\* files written to the end, closed and not deleted
LiveRuns == complete \cap DOMAIN fs

\* generate_initial_runs has returned and the finally block has not run
BuilderReturned ==
  \/ pc \in {"reduce", "batch", "merge_open", "merge_init", "merge_out",
             "merge_loop", "remove", "count", "count_open", "count_init",
             "count_loop", "write_open", "write"}
  \/ pc = "finally" /\ err_stage \in {"none", "reducer", "counter", "output"}

\* the merged output of the current batch is complete and reduce_runs has
\* not yet finished removing the inputs of that batch
InWindow == Len(new_runs) * fan_in > batch_start

\* the inputs of the current batch that are not removed yet
PendingInputs == SubSeq(batch, rm_i + 1, Len(batch))

\* the merge of the current batch is running
Merging == pc \in {"merge_open", "merge_init", "merge_out", "merge_loop"}

\* C1: a successful invocation with fan_in >= 2 returns the number of
\* distinct keys of the input, whatever the order of the lines, the chunk
\* size and the fan-in.
C1_DistinctCount ==
  (pc = "done" /\ err = "none" /\ fan_in >= 2)
    => ans = DistinctCount(encoded)

\* C1 witness: a successful invocation where the reducer made a pass and
\* the input holds duplicates
C1_Witness ==
  /\ pc = "done" /\ err = "none" /\ fan_in >= 2
  /\ level >= 1
  /\ BagSize(encoded) >= 4
  /\ ans = 2

\* C2: with fan_in = 1 the reducer terminates.  The loop of reduce_runs
\* runs while len(runs) > fan_in and a pass changes nothing else the test
\* reads, so it terminates exactly when every pass leaves fewer runs than it
\* started with: that is the statement here.
C2_ReducerTerminates ==
  [][(fan_in = 1 /\ pc = "batch" /\ pc' = "reduce")
       => Len(runs') < Len(runs)]_vars

\* C3 as claimed: at every point after the run builder returned and before
\* teardown the keys of the live runs are the keys encoded from the input
\* (stated for fan_in >= 2, where the reducer terminates).
C3_LiveRunsEqualInput ==
  (BuilderReturned /\ tmp_dir = "exists" /\ fan_in >= 2)
    => BagOfFiles(fs, LiveRuns) = encoded

\* C3 amended: the live runs hold the keys encoded from the input, plus,
\* between a batch's output being complete and the end of the removal of
\* its inputs, one more copy of the keys of the inputs not removed yet.
C3_LiveRunsAmended ==
  (BuilderReturned /\ tmp_dir = "exists")
    => BagOfFiles(fs, LiveRuns) =
         IF InWindow THEN BagAdd(encoded, BagOfRuns(fs, PendingInputs))
         ELSE encoded

\* C3 witness: the merged output of a later batch of a pass is complete, one
\* input of that batch is removed and one is not
C3_Witness ==
  /\ pc = "remove" /\ rm_i = 1 /\ Len(batch) = 2
  /\ batch_start > 0
  /\ BagSize(BagOf(fs[batch[2]])) >= 1

\* C4: when reduce_runs has returned, at most fan_in runs are left, so the
\* counter never opens more than fan_in runs.
C4_AtMostFanIn ==
  (pc \in {"count", "count_open", "count_init", "count_loop"})
    => (Len(runs) <= fan_in /\ Len(files) <= fan_in)

\* C4 witness: the reducer returns exactly fan_in runs after a pass
C4_Witness ==
  pc = "count" /\ level >= 1 /\ fan_in >= 2 /\ Len(runs) = fan_in

\* C5: when a merge has written and closed its output, the output holds as
\* many records as the inputs together and the same multiset of keys.
C5_MergeBijection ==
  (pc = "remove" /\ rm_i = 0)
    => /\ Len(fs[merged_path]) = BagSize(BagOfRuns(fs, batch))
       /\ BagOf(fs[merged_path]) = BagOfRuns(fs, batch)

\* C5 witness: a finished merge of two runs that share a key, one of them
\* holding it twice
C5_Witness ==
  /\ pc = "remove" /\ rm_i = 0 /\ Len(batch) = 2
  /\ \E k \in Keys : BagOf(fs[batch[1]])[k] = 2 /\ BagOf(fs[batch[2]])[k] >= 1
  /\ Len(fs[merged_path]) >= 3

\* C6: when every input run of a merge is sorted ascending, what the merge
\* has written to its output is non-decreasing, at every step.
C6_MergeSorted ==
  ((Merging \/ pc = "remove")
     /\ (\A i \in DOMAIN batch : IsSorted(fs[batch[i]]))
     /\ merged_path \in DOMAIN fs)
    => IsSorted(fs[merged_path])

\* C6 witness: a finished merge of two sorted runs whose records interleave
C6_Witness ==
  /\ pc = "remove" /\ rm_i = 0 /\ Len(batch) = 2
  /\ \A i \in DOMAIN batch : IsSorted(fs[batch[i]])
  /\ Len(fs[batch[1]]) = 2 /\ Len(fs[batch[2]]) = 2
  /\ fs[batch[2]][1] < fs[batch[1]][2]
  /\ fs[batch[1]][1] < fs[batch[2]][2]
  /\ Len(fs[merged_path]) = 4

\* C7: at every boundary between two passes of reduce_runs and on its
\* return, the runs of the current list exist and hold together the records
\* of the list passed to reduce_runs.
C7_ReducerPreserves ==
  (pc \in {"reduce", "count"})
    => /\ \A i \in DOMAIN runs : runs[i] \in LiveRuns
       /\ BagOfRuns(fs, runs) = run_paths

\* C7 witness: the reducer returns after two passes, fan_in >= 2
C7_Witness ==
  pc = "count" /\ level = 2 /\ fan_in >= 2 /\ BagSize(run_paths) = 5

\* the inputs of the current batch and of the later batches of the pass
RemainingInputs == SeqRange(SubSeq(runs, batch_start + 1, Len(runs)))

\* C8: while a batch is being merged its inputs and those of the later
\* batches stay in place and unmodified, also by the step in which the
\* merge fails; and reduce_runs removes a file only when it is an input of
\* the current batch whose merged output has been written and closed.
C8_NoDeleteBeforeMerged ==
  [][/\ Merging =>
          \A p \in RemainingInputs :
            /\ p \in LiveRuns
            /\ p \in DOMAIN fs' /\ p \in complete'
            /\ fs'[p] = fs[p]
     /\ pc # "finally" =>
          \A p \in DOMAIN fs \ DOMAIN fs' :
            /\ pc = "remove"
            /\ p \in SeqRange(batch)
            /\ merged_path \in LiveRuns
            /\ ~out_open]_vars

\* C8 witness: the merge of a later batch has failed after writing part of
\* its output, and its inputs are in place
C8_Witness ==
  /\ pc = "finally" /\ err_stage = "reducer"
  /\ batch_start > 0
  /\ merged_path \in DOMAIN fs \ complete
  /\ Len(fs[merged_path]) >= 1
  /\ \A p \in RemainingInputs : p \in LiveRuns
  /\ ~InWindow

C10_AllOrNothing ==
  /\ err_stage \in {"mkdtemp", "builder", "reducer", "counter"}
       => (~sink.opened /\ sink.text = <<>>)
  /\ sink.opened => ans = DistinctCount(encoded)
  /\ sink.text # <<>> => (sink.opened /\ sink.text[1] = Str(DistinctCount(encoded)))
  /\ (pc = "done" /\ err = "none")
       => sink.text = <<Str(DistinctCount(encoded)), "\n">>

\* C10 witness: the counter failed after counting part of the records, and
\* the output file was not opened
C10_Witness ==
  /\ pc = "done" /\ err_stage = "counter"
  /\ uniq >= 1
  /\ ~sink.opened

\* a run file of the workspace holds a short record
SomeRunTruncated == \E p \in DOMAIN fs : Frag \in SeqRange(fs[p])

\* C11: a short trailing record of a truncated run file is never written to
\* a merged run and never counted as a key, and no count is produced from a
\* workspace that holds a truncated run.
C11_TruncatedIsFatal ==
  /\ \A p \in DOMAIN fs : p[1] = "merge" => Frag \notin SeqRange(fs[p])
  /\ prev # Frag
  /\ SomeRunTruncated => ans = -1

\* C12: the run builder never skips an input line: as long as it has not
\* aborted, every line read so far has contributed exactly one key, and each
\* of those keys is in exactly one run or still in the buffer.
C12_NoLineSkipped ==
  (pc = "build" /\ err = "none") =>
    /\ pos = BagSize(encoded)
    /\ BagAdd(BagOfRuns(fs, runs), BagOf(buf)) = encoded

\* the files the pipeline holds open: the run handles of the merge or of the
\* counter, and the merge's output
OpenCount == Len(files) + (IF out_open THEN 1 ELSE 0)

\* C13: for fan_in >= 2 the reducer and the counter never hold more than
\* fan_in files open at once, inputs and output together.
C13_OpenFilesBounded ==
  (fan_in >= 2 /\ pc \in {"reduce", "batch", "merge_open", "merge_init",
                          "merge_out", "merge_loop", "remove", "count",
                          "count_open", "count_init", "count_loop"})
    => OpenCount <= fan_in

\* C14: for an empty input the builder returns no run and creates no run
\* file, the reducer and the counter raise nothing, and the count returned
\* and written is 0.
C14_EmptyInput ==
  (/\ pos = 0
   /\ pc \notin {"start", "build_open", "build"}
   /\ err_stage \notin {"mkdtemp", "builder"}) =>
    /\ run_paths = EmptyBag
    /\ runs = <<>>
    /\ fs = NoFiles
    /\ level = 0
    /\ err_stage \notin {"reducer", "counter"}
    /\ pc \in {"write_open", "write", "finally", "done"} => ans = 0
    /\ (pc = "done" /\ err = "none") => sink.text = <<"0", "\n">>

C14_Witness ==
  /\ pc = "done" /\ err = "none" /\ pos = 0
  /\ ans = 0 /\ keep_tmp
  /\ sink.text = <<"0", "\n">>

\* no element occurs twice in seq
NoDup(seq) == \A i, j \in DOMAIN seq : seq[i] = seq[j] => i = j

\* a reducer pass is under way
InPass == pc \in {"batch", "merge_open", "merge_init", "merge_out",
                  "merge_loop", "remove"}

\* the for loop of the pass is exhausted
PassEnds == pc = "batch" /\ batch_start >= Len(runs)

\* C15: a reducer pass partitions the current generation into consecutive
\* batches of at most fan_in runs: the runs merged so far in the pass are
\* the generation's first runs in order, one batch of 1..fan_in runs per
\* merge, no run is in the generation twice, and when the pass ends the runs
\* merged are exactly the generation, for every fan_in >= 1.
C15_FullPartition ==
  InPass =>
    /\ NoDup(runs)
    /\ Len(runs) > fan_in
    /\ merged = SubSeq(runs, 1, Min(Len(new_runs) * fan_in, Len(runs)))
    /\ Merging => Len(batch) \in 1..fan_in
    /\ PassEnds => merged = runs

C15_Witness ==
  /\ PassEnds
  /\ fan_in = 2 /\ Len(runs) = 5 /\ Len(new_runs) = 3
  /\ merged = runs

\* ceil(n / d)
CeilDiv(n, d) == (n + d - 1) \div d

\* batchSize = 1 over five identical keys, fanIn = 2
FiveEqualKeys ==
  /\ chunk_records = 1 /\ fan_in = 2
  /\ pos = 5
  /\ encoded = [k \in Keys |-> IF k = 1 THEN 5 ELSE 0]

\* C16: a reducer pass over n > fan_in runs leaves exactly ceil(n / fan_in)
\* runs, which is never more than n.  With chunk_records = 1 over five
\* identical keys and fan_in = 2 the builder returns five runs of one
\* record, the passes leave 3 and then 2 runs, the reducer returns after
\* its second pass and the count is 1.
C16_PassRunCount ==
  /\ PassEnds =>
       /\ Len(new_runs) = CeilDiv(Len(runs), fan_in)
       /\ Len(new_runs) <= Len(runs)
  /\ (FiveEqualKeys /\ BuilderReturned /\ pc = "reduce") =>
       /\ level \in 0..2
       /\ Len(runs) = CASE level = 0 -> 5 [] level = 1 -> 3 [] level = 2 -> 2
       /\ \A i \in DOMAIN runs : level = 0 => Len(fs[runs[i]]) = 1
  /\ (FiveEqualKeys /\ pc = "count") => level = 2
  /\ (FiveEqualKeys /\ pc = "done" /\ err = "none") => ans = 1

C16_Witness ==
  /\ FiveEqualKeys
  /\ pc = "done" /\ err = "none"
  /\ level = 2 /\ ans = 1

\* C17: the builder returns ceil(n / chunk_records) runs for n keys, in
\* creation order; every run is sorted ascending and non-empty, every run
\* but the last holds chunk_records keys and the last between 1 and
\* chunk_records; the buffer never holds more than chunk_records keys.
C17_BuilderRuns ==
  /\ Len(buf) <= chunk_records
  /\ (pc = "reduce" /\ level = 0) =>
       /\ Len(runs) = CeilDiv(BagSize(encoded), chunk_records)
       /\ \A i \in DOMAIN runs :
            /\ runs[i] = RunPath(i - 1)
            /\ runs[i] \in DOMAIN fs
            /\ IsSorted(fs[runs[i]])
            /\ Len(fs[runs[i]]) \in 1..chunk_records
            /\ i < Len(runs) => Len(fs[runs[i]]) = chunk_records

C17_Witness ==
  /\ pc = "reduce" /\ level = 0
  /\ chunk_records = 2 /\ BagSize(encoded) = 5
  /\ Len(runs) = 3
  /\ fs[runs[1]] = <<1, 2>>
  /\ Len(fs[runs[3]]) = 1

\* C18: the inputs of a batch are deleted when its merge has completed, not
\* at the end of the pass: while a batch is being merged, every run of the
\* earlier batches of the pass is gone from the workspace, and the merged
\* runs that replace them are there.
C18_FreedPerBatch ==
  Merging =>
    /\ \A i \in 1..batch_start : runs[i] \notin DOMAIN fs
    /\ \A i \in DOMAIN new_runs : new_runs[i] \in DOMAIN fs

C18_Witness ==
  /\ pc = "merge_open" /\ files = <<>>
  /\ fan_in = 2 /\ batch_start = 4 /\ Len(runs) = 5
  /\ Len(new_runs) = 2
  /\ DOMAIN fs = {runs[5], new_runs[1], new_runs[2]}

\* the records the counter has popped from its i-th run: the records read
\* from it, less the one still on the heap
Popped(i) ==
  LET waiting == IF \E e \in heap : e[2] = i THEN 1 ELSE 0
  IN SubSeq(fs[files[i].path], 1, files[i].off - waiting)

\* the keys emitted so far by the counter
EmittedKeys == UNION {SeqRange(Popped(i)) : i \in DOMAIN files}

\* the records of the i-th run that are not popped yet
NotPopped(i) ==
  SubSeq(fs[files[i].path], Len(Popped(i)) + 1, Len(fs[files[i].path]))

\* C19: in the counting loop the keys are popped in non-decreasing order
\* whichever run they come from (everything popped is at most prev,
\* everything waiting in the heap or unread is at least prev), uniq is the
\* number of distinct keys emitted so far and prev is the last emitted key.
C19_CounterLoop ==
  pc = "count_loop" =>
    /\ uniq = Cardinality(EmittedKeys)
    /\ prev = IF EmittedKeys = {} THEN NoRec
              ELSE CHOOSE k \in EmittedKeys : \A o \in EmittedKeys : o <= k
    /\ \A e \in heap : prev <= e[1]
    /\ \A i \in DOMAIN files : \A j \in DOMAIN NotPopped(i) :
         prev <= NotPopped(i)[j]

C19_Witness ==
  /\ pc = "count_loop"
  /\ Len(files) = 2
  /\ Popped(1) = <<1, 2>> /\ Popped(2) = <<1>>
  /\ heap = {<<2, 2>>}
  /\ uniq = 2 /\ prev = 2

\* C20: every run file is written by one stage operation only: no path is
\* opened for writing twice in an invocation, every file of the workspace
\* was created by one of those opens, and the output of a merge is none of
\* its inputs and no run of the current or of the new generation.
C20_SingleWriter ==
  /\ NoDup(created)
  /\ DOMAIN fs \subseteq SeqRange(created)
  /\ (pc \in {"merge_open", "merge_init", "merge_out"}) =>
       /\ merged_path \notin SeqRange(created)
       /\ merged_path \notin DOMAIN fs
       /\ merged_path \notin SeqRange(runs) \cup SeqRange(new_runs)
  /\ pc = "merge_loop" =>
       /\ created[Len(created)] = merged_path
       /\ merged_path \notin {files[i].path : i \in DOMAIN files}
  /\ (pc = "build" /\ err = "none") =>
       RunPath(run_idx) \notin SeqRange(created) \cup DOMAIN fs

C20_Witness ==
  /\ pc = "merge_loop"
  /\ level = 1 /\ fan_in = 2
  /\ Len(created) = 9
  /\ created[9] = merged_path
  /\ fs[merged_path] # <<>>

\* reduce_runs is called with at most fan_in runs
ReduceCalledSmall == pc = "reduce" /\ level = 0 /\ Len(runs) <= fan_in

\* C21: when reduce_runs is called with at most fan_in runs it performs no
\* pass: its next step is the return to the orchestrator with the same runs
\* in the same order, and no file of the workspace is created, modified or
\* deleted; the counter then runs over the builder's own runs.
C21_NoPassNeeded ==
  [][/\ ReduceCalledSmall =>
          /\ pc' = "count"
          /\ runs' = runs
          /\ fs' = fs
          /\ complete' = complete
          /\ created' = created
          /\ level' = 0 /\ merged' = <<>>
     /\ (pc = "count" /\ level = 0) =>
          /\ \A i \in DOMAIN runs : runs[i] = RunPath(i - 1)
          /\ DOMAIN fs = SeqRange(runs)
          /\ created = runs
          /\ BagOfRuns(fs, runs) = encoded]_vars

C21_Witness ==
  /\ pc = "done" /\ err = "none" /\ keep_tmp
  /\ chunk_records = 2 /\ fan_in = 2
  /\ level = 0 /\ merged = <<>>
  /\ created = runs /\ Len(runs) = 2
  /\ fs[runs[1]] = <<1, 2>> /\ fs[runs[2]] = <<1, 2>>
  /\ ans = 2

\* merge_runs_to_file or count_unique_across_runs is running
ReadingRuns == pc \in {"merge_open", "merge_init", "merge_out", "merge_loop",
                       "count_open", "count_init", "count_loop"}

\* C22: once merge_runs_to_file or count_unique_across_runs has ended, by
\* returning or by raising, none of the files it opened is open any more.
C22_HandlesClosed == ~ReadingRuns => (files = <<>> /\ ~out_open)

====
